---- MODULE Spec2Model ----
(***************************************************************************)
(* Session layer of the prompt-lab web client: the credential store and    *)
(* session lifecycle (useAuth.jsx), the request-side hook that attaches    *)
(* the bearer header (useAuth.jsx), the forced-logout callback             *)
(* (AuthProvider) and the refresh coordinator (attachTokenRefresh.js).     *)
(*                                                                         *)
(* One action is one run-to-completion turn of the single-threaded event   *)
(* loop: a call being issued, a network response arriving together with    *)
(* the whole synchronous handler it resumes, or a React effect being       *)
(* flushed.                                                                *)
(*                                                                         *)
(* The request interceptor is registered by an effect with dependency      *)
(* [accessToken]; it closes over the accessToken of the render that        *)
(* registered it.  setAccessToken only schedules a render, so between a    *)
(* credential change and the next flush of that effect (Rerender) the      *)
(* registered interceptor still holds the previous value: hookToken.       *)
(*                                                                         *)
(* POST /login is answered within signIn's own turn (SignInOk, SignInFail);*)
(* POST /logout is one of the calls (url = "logout"), because its 401 is   *)
(* handled by the response handler like that of any protected call, and    *)
(* signOut's clearing runs when that call settles.                         *)
(***************************************************************************)
EXTENDS Integers, Sequences, FiniteSets

\* ---------------------------------------------------------------- bounds
NReq == 3          \* outgoing calls the application issues
MaxTok == 2        \* access tokens the server is willing to issue
MaxSignOut == 1    \* how many of the calls may be signOut's logout exchange

Reqs == 1..NReq

\* the POST /refresh made by refreshApi(), which is none of the calls in Reqs
RefreshReq == 0

\* 0 stands for null / absent key / no Authorization header
NoTok == 0
NoUser == 0
TheUser == 1

VARIABLES
  accessToken,     \* useAuth: useState(null)  (React state)
  user,            \* useAuth: useState(null)
  hookToken,       \* accessToken captured by the registered request interceptor
  sessionStorage,  \* [access_token, user]
  localStorage,    \* [access_token, user, auth_storage]
  isRefreshing,    \* attachTokenRefresh.js module state
  queue,           \* attachTokenRefresh.js module state: sequence of calls
  st,              \* per call: position of the call / of its caller
  url,             \* per call: "api" or "logout"
  retry,           \* per call: config._retry
  hdr,             \* per call: Authorization header it carries while on the network
  sends,           \* per call: how many times it went onto the network
  err,             \* per call: the error its caller was rejected with: its own
                   \* "401", its own "other" failure, or the "refresh" error
  refreshCalls,    \* refreshApi() invocations so far
  refreshError,    \* what the latest failed refresh exchange failed with
  logoutCalls,     \* onRefreshFail invocations made by the latest failed refresh
  released,        \* the calls the latest refresh settlement re-issued or
                   \* rejected, in the order in which it did
  replayedIn,      \* the coordinator state in which the latest successful
                   \* refresh re-issued its calls, "none" before the first
  signInError,     \* what the latest signIn rejected with, "none" if it resolved
  outMidRefresh,   \* a signOut completed while the refresh now in flight was
                   \* in flight, and no signIn resolved since
  nextTok          \* next token the server will issue

histVars == <<refreshError, logoutCalls, released, replayedIn>>
sessVars == <<accessToken, user, sessionStorage, localStorage>>
coordVars == <<isRefreshing, queue, refreshCalls>>
reqVars == <<st, url, retry, hdr, sends, err>>
vars == <<accessToken, user, hookToken, sessionStorage, localStorage,
          isRefreshing, queue, st, url, retry, hdr, sends, err,
          refreshCalls, refreshError, logoutCalls, released, replayedIn,
          signInError, outMidRefresh,
          nextTok>>

\* ------------------------------------------------------ credential store
EmptySS == [access_token |-> NoTok, user |-> NoUser]
EmptyLS == [access_token |-> NoTok, user |-> NoUser, auth_storage |-> "none"]

\* getStorage(): which durability the flag names, 'session' when absent
getStorage(ls) ==
  LET prefer == IF ls.auth_storage = "none" THEN "session" ELSE ls.auth_storage
  IN  IF prefer = "local" THEN "local" ELSE "session"

\* JSON.stringify(u): the text kept under the key 'user'; texts are the
\* negative numbers, records the positive ones, null and "no item" are 0
JSONstringify(u) == 0 - u

\* a reader that hands the stored text back as it is
JSONparse_raw(j) == j

\* JSON.parse(userJson)
JSONparse(j) == 0 - j

\* the restore effect: token and user read from the durability on record
restore(ss, ls) ==
  LET storage == IF getStorage(ls) = "local"
                   THEN [access_token |-> ls.access_token, user |-> ls.user]
                   ELSE ss
  IN  [accessToken |-> storage.access_token,
       user |-> IF storage.user # NoUser THEN JSONparse(storage.user) ELSE NoUser]

Cur == [accessToken |-> accessToken, user |-> user,
        sessionStorage |-> sessionStorage, localStorage |-> localStorage]

SetSession(s) ==
  /\ accessToken' = s.accessToken
  /\ user' = s.user
  /\ sessionStorage' = s.sessionStorage
  /\ localStorage' = s.localStorage

\* signIn, after the login exchange resolved with token at and user u
signInStore(s, at, u, keep) ==
  IF keep
    THEN [s EXCEPT !.accessToken = at, !.user = u,
                   !.localStorage = [access_token |-> at,
                                     user |-> JSONstringify(u),
                                     auth_storage |-> "local"]]
    ELSE [s EXCEPT !.accessToken = at, !.user = u,
                   !.localStorage.auth_storage = "session",
                   !.sessionStorage = [access_token |-> at,
                                       user |-> JSONstringify(u)]]

\* a signOut that leaves the persistent durability alone
signOutClear_sessionOnly(s) ==
  [s EXCEPT !.accessToken = NoTok, !.user = NoUser, !.sessionStorage = EmptySS]

\* signOut, after the logout exchange settled either way
signOutClear(s) ==
  [accessToken |-> NoTok, user |-> NoUser,
   sessionStorage |-> EmptySS, localStorage |-> EmptyLS]

\* a callback that forgets the persistent durability
onRefreshFail_sessionOnly(s) ==
  [s EXCEPT !.sessionStorage = EmptySS, !.accessToken = NoTok]

\* AuthProvider: the callback handed to attachTokenRefresh
onRefreshFail(s) ==
  [s EXCEPT !.sessionStorage = EmptySS, !.localStorage = EmptyLS,
            !.accessToken = NoTok]

\* attachTokenRefresh, refresh success: setAccessToken + sessionStorage.setItem
refreshStore(s, newAccess) ==
  [s EXCEPT !.accessToken = newAccess,
            !.sessionStorage.access_token = newAccess]

\* signOut's continuation runs as soon as its logout call settles
settled(s, R) ==
  IF \E r \in R : url[r] = "logout" THEN signOutClear(s) ELSE s

\* -------------------------------------------------------- request pipeline
\* whether a signOut has completed under the refresh in flight, once the
\* calls in R have settled
outNow(R) ==
  IF (\E r \in R : url[r] = "logout") /\ (\E q \in Reqs : st[q] = "trigger")
    THEN TRUE
    ELSE outMidRefresh

\* the request interceptor registered by the latest flushed effect
attach(h) == IF hookToken # NoTok THEN hookToken ELSE h

TypeOK ==
  /\ accessToken \in 0..MaxTok
  /\ user \in {NoUser, TheUser}
  /\ hookToken \in 0..MaxTok
  /\ isRefreshing \in BOOLEAN
  /\ st \in [Reqs -> {"new", "sent", "queued", "trigger", "done", "rejected"}]
  /\ retry \in [Reqs -> BOOLEAN]
  /\ logoutCalls \in 0..2

Init ==
  /\ \E boot \in {"empty", "session", "local"} :
       /\ sessionStorage = IF boot = "session"
                             THEN [access_token |-> 1,
                                   user |-> JSONstringify(TheUser)]
                             ELSE EmptySS
       /\ localStorage = IF boot = "local"
                           THEN [access_token |-> 1,
                                 user |-> JSONstringify(TheUser),
                                 auth_storage |-> "local"]
                           ELSE [EmptyLS EXCEPT !.auth_storage =
                                   IF boot = "session" THEN "session" ELSE "none"]
       /\ nextTok = IF boot = "empty" THEN 1 ELSE 2
  /\ accessToken = restore(sessionStorage, localStorage).accessToken
  /\ user = restore(sessionStorage, localStorage).user
  /\ hookToken = NoTok
  /\ isRefreshing = FALSE
  /\ queue = <<>>
  /\ st = [r \in Reqs |-> "new"]
  /\ url = [r \in Reqs |-> "api"]
  /\ retry = [r \in Reqs |-> FALSE]
  /\ hdr = [r \in Reqs |-> NoTok]
  /\ sends = [r \in Reqs |-> 0]
  /\ err = [r \in Reqs |-> "none"]
  /\ refreshCalls = 0
  /\ logoutCalls = 0
  /\ refreshError = "none"
  /\ released = <<>>
  /\ replayedIn = "none"
  /\ signInError = "none"
  /\ outMidRefresh = FALSE

\* the effect [accessToken]: eject the old request interceptor, register a
\* new one that closes over the current accessToken
Rerender ==
  /\ hookToken # accessToken
  /\ hookToken' = accessToken
  /\ UNCHANGED <<histVars, signInError, outMidRefresh, sessVars, coordVars, reqVars, nextTok>>

\* the application issues a call: api.post(...) or signOut's logoutApi()
Issue(r, u) ==
  /\ st[r] = "new"
  /\ \A q \in 1..(r - 1) : st[q] # "new"
  /\ u = "logout" => Cardinality({q \in Reqs : url[q] = "logout"}) < MaxSignOut
  /\ st' = [st EXCEPT ![r] = "sent"]
  /\ url' = [url EXCEPT ![r] = u]
  /\ hdr' = [hdr EXCEPT ![r] = attach(NoTok)]
  /\ sends' = [sends EXCEPT ![r] = 1]
  /\ UNCHANGED <<histVars, signInError, outMidRefresh, sessVars, hookToken, coordVars, retry, err, nextTok>>

\* the success handler `(res) => res`
Respond200(r) ==
  /\ st[r] = "sent"
  /\ st' = [st EXCEPT ![r] = "done"]
  /\ hdr' = [hdr EXCEPT ![r] = NoTok]
  /\ SetSession(settled(Cur, {r}))
  /\ outMidRefresh' = outNow({r})
  /\ UNCHANGED <<histVars, signInError, hookToken, coordVars, url, retry, sends, err, nextTok>>

\* a handler that marks the config before it looks at the status
passMark_set(r) == TRUE

\* the mark of a call thrown back at line 17: `config._retry = true` (line 28)
\* has not been reached, the config is as it came in
passMark(r) == retry[r]

\* `if (!response || response.status !== 401) throw error`
RespondOther(r, kind) ==
  /\ st[r] = "sent"
  /\ st' = [st EXCEPT ![r] = "rejected"]
  /\ err' = [err EXCEPT ![r] = "other"]
  /\ hdr' = [hdr EXCEPT ![r] = NoTok]
  /\ retry' = [retry EXCEPT ![r] = passMark(r)]
  /\ SetSession(settled(Cur, {r}))
  /\ outMidRefresh' = outNow({r})
  /\ UNCHANGED <<histVars, signInError, hookToken, coordVars, url, sends, nextTok>>

\* a handler that never looks at the mark
alreadyRetried_never(r) == FALSE

\* a handler that also gives up on a call sent with another token than the
\* current one
alreadyRetried_orStale(r) == retry[r] \/ hdr[r] # accessToken

\* `if (config._retry)`
alreadyRetried(r) == retry[r]

\* a _retry branch that only rethrows
retryTeardown_none(s) == s

\* the `onRefreshFail?.()` of the _retry branch
retryTeardown(s) == onRefreshFail(s)

\* a 401 on a marked call: `if (config._retry) { onRefreshFail?.(); throw error; }`
RetryExhausted(r) ==
  /\ st[r] = "sent"
  /\ alreadyRetried(r)
  /\ st' = [st EXCEPT ![r] = "rejected"]
  /\ err' = [err EXCEPT ![r] = "401"]
  /\ hdr' = [hdr EXCEPT ![r] = NoTok]
  /\ SetSession(settled(retryTeardown(Cur), {r}))
  /\ outMidRefresh' = outNow({r})
  /\ UNCHANGED <<histVars, signInError, hookToken, coordVars, url, retry, sends, nextTok>>

\* a handler that never marks the config
marked_never == FALSE

\* `config._retry = true`
marked == TRUE

\* a handler that never joins a running episode
mustQueue_never == FALSE

\* a handler that joins an episode whether one is running or not
mustQueue_always == TRUE

\* `if (isRefreshing)`: the failure joins the running episode
mustQueue == isRefreshing

\* a 401 on an unmarked call while Refreshing:
\* `config._retry = true; if (isRefreshing) return new Promise(... queue.push ...)`
Enqueue(r) ==
  /\ st[r] = "sent"
  /\ ~alreadyRetried(r)
  /\ mustQueue
  /\ retry' = [retry EXCEPT ![r] = marked]
  /\ queue' = Append(queue, r)
  /\ st' = [st EXCEPT ![r] = "queued"]
  /\ hdr' = [hdr EXCEPT ![r] = NoTok]
  /\ UNCHANGED <<histVars, signInError, outMidRefresh, sessVars, hookToken, isRefreshing, refreshCalls, url, sends,
                 err, nextTok>>

\* the flag raised only after the await, not in the observing turn
setRefreshing_late == FALSE

\* `isRefreshing = true`, in the turn that observed the failure
setRefreshing == TRUE

\* a 401 on an unmarked call while Idle:
\* `config._retry = true; isRefreshing = true; await refreshApi()`
StartRefresh(r) ==
  /\ st[r] = "sent"
  /\ ~alreadyRetried(r)
  /\ ~mustQueue
  /\ retry' = [retry EXCEPT ![r] = marked]
  /\ isRefreshing' = setRefreshing
  /\ refreshCalls' = refreshCalls + 1
  /\ st' = [st EXCEPT ![r] = "trigger"]
  /\ hdr' = [hdr EXCEPT ![r] = NoTok]
  /\ UNCHANGED <<histVars, signInError, outMidRefresh, sessVars, hookToken, queue, url, sends, err, nextTok>>

InQueue == {queue[i] : i \in 1..Len(queue)}
entries(q) == Cardinality({i \in 1..Len(queue) : queue[i] = q})

\* every call awaiting refreshApi() is one POST /refresh on the network
RefreshInFlight == Cardinality({r \in Reqs : st[r] = "trigger"})

\* a processQueue that resolves whatever it is given
processQueue_resolves(e, q) == "sent"

\* processQueue(err, token), per entry: `err ? reject(err) : resolve(token)`;
\* resolve re-issues the call, reject settles its caller
processQueue(e, q) == IF e THEN "rejected" ELSE "sent"

\* a processQueue that leaves the entries in place
drained_not == queue

\* processQueue: `queue = []`
drained == <<>>

\* a forEach that walks the queue from its last entry
forEachOrder_reversed == [i \in 1..Len(queue) |-> queue[Len(queue) + 1 - i]]

\* processQueue: `queue.forEach(...)` visits the entries from index 0 up
forEachOrder == queue

\* the settlement serves the queue first (`processQueue(...)`), then the
\* triggering call (`return api(config)`, `throw e`)
settleOrder(r) == forEachOrder \o <<r>>

\* a handler without the finally block
finallyFlag_stuck == TRUE

\* `finally { isRefreshing = false; }`
finallyFlag == FALSE

\* a handler that lowers the flag before it re-issues anything
flagAtReplay_lowered == "Idle"

\* the coordinator state in which `resolve(api(config))` (inside processQueue)
\* and `return api(config)` run: nothing between `isRefreshing = true` and
\* the finally block writes the flag, and the finally block runs after them
flagAtReplay == IF isRefreshing THEN "Refreshing" ELSE "Idle"

\* a catch block that only rethrows
catchTeardown_none(s) == s

\* the `onRefreshFail?.()` of the catch block
catchTeardown(s) == onRefreshFail(s)

\* a handler that exempts only the login exchange
authUrl_loginOnly(u) == u = "login"

\* `config.url?.endsWith('/login') || config.url?.endsWith('/refresh')`
authUrl(u) == u \in {"login", "refresh"}

\* the response handler run for the POST /refresh itself:
\* `if (config.url?.endsWith('/login') || config.url?.endsWith('/refresh'))`
\* is reached only with a 401 response and then calls onRefreshFail once
authUrlCalls(kind) == IF kind = "401" THEN 1 ELSE 0

\* `catch (e) { processQueue(e, null); onRefreshFail?.(); throw e; }`
catchCalls == 1

\* refresh resolved with a token: setAccessToken, sessionStorage.setItem,
\* processQueue(null, newAccess), replay of the triggering call, finally
RefreshOk(r) ==
  /\ st[r] = "trigger"
  /\ nextTok <= MaxTok
  /\ LET newAccess == nextTok
         resolved == {q \in InQueue : processQueue(FALSE, q) = "sent"}
         again == resolved \cup {r}
     IN  /\ SetSession(refreshStore(Cur, newAccess))
         /\ st' = [q \in Reqs |-> IF q \in InQueue THEN processQueue(FALSE, q)
                                  ELSE IF q = r THEN "sent" ELSE st[q]]
         /\ hdr' = [q \in Reqs |-> IF q \in again THEN attach(newAccess) ELSE hdr[q]]
         /\ sends' = [q \in Reqs |-> IF q \in again THEN sends[q] + 1 ELSE sends[q]]
  /\ queue' = drained
  /\ isRefreshing' = finallyFlag
  /\ nextTok' = nextTok + 1
  /\ released' = settleOrder(r)
  /\ replayedIn' = flagAtReplay
  /\ outMidRefresh' = FALSE
  /\ UNCHANGED <<refreshError, logoutCalls, signInError, hookToken, refreshCalls,
                 url, retry, err>>

\* refresh rejected (401, or no response / another status), or resolved
\* without an access token: catch, then finally
RefreshFail(r, kind) ==
  /\ st[r] = "trigger"
  /\ IF kind = "401" /\ ~authUrl("refresh")
       THEN \* the 401 of the POST /refresh is handled as a protected call's:
            \* marked and, the coordinator being Refreshing, enqueued; the
            \* promise the triggering handler awaits stays pending
            /\ queue' = Append(queue, RefreshReq)
            /\ UNCHANGED <<histVars, sessVars, reqVars, isRefreshing, outMidRefresh>>
       ELSE /\ LET rejected == {q \in InQueue : processQueue(TRUE, q) = "rejected"}
                   out == rejected \cup {r}
               IN  /\ st' = [q \in Reqs |->
                               IF q \in InQueue THEN processQueue(TRUE, q)
                               ELSE IF q = r THEN "rejected" ELSE st[q]]
                   /\ err' = [q \in Reqs |-> IF q \in out THEN "refresh" ELSE err[q]]
                   /\ SetSession(settled(catchTeardown(Cur), out))
            /\ queue' = drained
            /\ isRefreshing' = finallyFlag
            /\ refreshError' = kind
            /\ logoutCalls' = authUrlCalls(kind) + catchCalls
            /\ released' = settleOrder(r)
            /\ outMidRefresh' = FALSE
            /\ UNCHANGED <<replayedIn, url, retry, hdr, sends>>
  /\ UNCHANGED <<signInError, hookToken, refreshCalls, nextTok>>

\* signIn: the login exchange resolved
SignInOk(keep) ==
  /\ nextTok <= MaxTok
  /\ SetSession(signInStore(Cur, nextTok, TheUser, keep))
  /\ nextTok' = nextTok + 1
  /\ signInError' = "none"
  /\ outMidRefresh' = FALSE
  /\ UNCHANGED <<histVars, hookToken, coordVars, reqVars>>

\* a /login branch that throws without calling back
authUrlTeardown_none(s) == s

\* a /login branch that signs out, in-memory user included
authUrlTeardown_signOut(s) == signOutClear(s)

\* the /login, /refresh branch: `onRefreshFail?.()`
authUrlTeardown(s) == onRefreshFail(s)

\* signIn: the login exchange rejected; a 401 passes the /login branch of the
\* response handler first
SignInFail(kind) ==
  /\ SetSession(IF kind = "401" THEN authUrlTeardown(Cur) ELSE Cur)
  /\ signInError' = kind
  /\ UNCHANGED <<histVars, outMidRefresh, hookToken, coordVars, reqVars, nextTok>>

Next ==
  \/ Rerender
  \/ \E r \in Reqs, u \in {"api", "logout"} : Issue(r, u)
  \/ \E r \in Reqs : Respond200(r)
  \/ \E r \in Reqs, kind \in {"net", "http"} : RespondOther(r, kind)
  \/ \E r \in Reqs : RetryExhausted(r)
  \/ \E r \in Reqs : Enqueue(r)
  \/ \E r \in Reqs : StartRefresh(r)
  \/ \E r \in Reqs : RefreshOk(r)
  \/ \E r \in Reqs, kind \in {"401", "net", "notoken"} : RefreshFail(r, kind)
  \/ \E keep \in BOOLEAN : SignInOk(keep)
  \/ \E kind \in {"401", "net"} : SignInFail(kind)

Spec == Init /\ [][Next]_vars

\* ---------------------------------------- a server that answers only 401
\* the handler turn for a 401 on call r, whichever branch it takes
Answer401(r) == RetryExhausted(r) \/ Enqueue(r) \/ StartRefresh(r)

\* the turn in which the POST /refresh awaited by call r is answered
RefreshAnswered(r) ==
  RefreshOk(r) \/ \E kind \in {"401", "net", "notoken"} : RefreshFail(r, kind)

\* every protected call is answered 401, whatever token it carries; the
\* login and the refresh exchange are answered as before
NextAll401 ==
  \/ Rerender
  \/ \E r \in Reqs, u \in {"api", "logout"} : Issue(r, u)
  \/ \E r \in Reqs : RetryExhausted(r)
  \/ \E r \in Reqs : Enqueue(r)
  \/ \E r \in Reqs : StartRefresh(r)
  \/ \E r \in Reqs : RefreshOk(r)
  \/ \E r \in Reqs, kind \in {"401", "net", "notoken"} : RefreshFail(r, kind)
  \/ \E keep \in BOOLEAN : SignInOk(keep)
  \/ \E kind \in {"401", "net"} : SignInFail(kind)

\* the server answers every call on the network and every refresh exchange
SpecAll401 ==
  /\ Init
  /\ [][NextAll401]_vars
  /\ \A r \in Reqs : WF_vars(Answer401(r)) /\ WF_vars(RefreshAnswered(r))

\* ------------------------------------------------------------------ claims
\* the step in which the POST /refresh awaited by call r settles
RefreshSettles(r) == st[r] = "trigger" /\ st'[r] # "trigger"
\* ... without the server having issued a token: 401, no response, or no token
RefreshFailed(r) == RefreshSettles(r) /\ nextTok' = nextTok
\* the step in which a marked call on the network is answered 401
MarkedFailsAgain(r) ==
  st[r] = "sent" /\ retry[r] /\ st'[r] = "rejected" /\ err'[r] = "401"

\* C1: in every reachable state at most one refresh exchange is in flight.
C1_SingleFlight == RefreshInFlight <= 1

C1_Witness ==
  /\ RefreshInFlight = 1
  /\ Len(queue) >= 1
  /\ \E r \in Reqs : st[r] = "sent" /\ ~retry[r]

\* C2: a failure observed while Idle invokes the refresh exchange once, and
\* no failure observed before that exchange settles invokes it again.
C2_OncePerEpisode ==
  [][/\ RefreshInFlight >= 1 => refreshCalls' = refreshCalls
     /\ (RefreshInFlight = 0 /\ \E r \in Reqs : st'[r] = "trigger")
          => refreshCalls' = refreshCalls + 1]_vars

C2_Witness == RefreshInFlight = 1 /\ Len(queue) = 2 /\ refreshCalls = 1

\* C3: every call re-issued when the refresh succeeds (queued or triggering)
\* goes onto the network with the new access token in its bearer header.
C3_ReplayCarriesNewToken ==
  [][\A r \in Reqs :
       (st[r] \in {"queued", "trigger"} /\ st'[r] = "sent")
         => hdr'[r] = accessToken']_vars

\* C4: a call is re-issued at most once; a marked call answered 401 is
\* rejected with its own error, is not enqueued and starts no refresh.
C4_RetriedAtMostOnce ==
  [][\A r \in Reqs :
       /\ sends'[r] <= 2
       /\ (st[r] = "sent" /\ retry[r] /\ st'[r] # "sent")
            => /\ st'[r] \in {"done", "rejected"}
               /\ st'[r] = "rejected" => err'[r] \in {"401", "other"}
               /\ sends'[r] = sends[r]
               /\ UNCHANGED <<queue, isRefreshing, refreshCalls>>]_vars

C4_Witness ==
  \E r \in Reqs : st[r] = "rejected" /\ err[r] = "401" /\ sends[r] = 2

C6_RefreshKeepsDurability ==
  [][\A r \in Reqs :
       (RefreshSettles(r) /\ nextTok' # nextTok)
         => /\ localStorage'.auth_storage = localStorage.auth_storage
            /\ localStorage.auth_storage = "local"
                 => /\ localStorage'.access_token = accessToken'
                    /\ sessionStorage' = sessionStorage
            /\ localStorage.auth_storage = "session"
                 => /\ sessionStorage'.access_token = accessToken'
                    /\ localStorage' = localStorage]_vars

\* C7: when the refresh exchange fails, every queued call and the triggering
\* call are rejected with the refresh error and none is re-issued.
C7_RefreshFailRejectsAll ==
  [][\A r \in Reqs :
       RefreshFailed(r)
         => \A q \in InQueue \cup {r} :
              /\ st'[q] = "rejected"
              /\ err'[q] = "refresh"
              /\ sends'[q] = sends[q]]_vars

C7_Witness ==
  \E r, q \in Reqs :
    /\ r # q
    /\ err[r] = "refresh" /\ err[q] = "refresh"
    /\ refreshCalls = 1

\* C8: when the refresh exchange fails, both storages and the flag are
\* cleared, so that restore() finds no credential.
C8_RefreshFailClearsStore ==
  [][\A r \in Reqs :
       RefreshFailed(r)
         => /\ sessionStorage' = EmptySS
            /\ localStorage' = EmptyLS
            /\ restore(sessionStorage', localStorage')
                 = [accessToken |-> NoTok, user |-> NoUser]]_vars

C8_Witness ==
  /\ \E r \in Reqs : err[r] = "refresh"
  /\ refreshError # "none"
  /\ user = TheUser
  /\ sessionStorage = EmptySS /\ localStorage = EmptyLS
  /\ restore(sessionStorage, localStorage).accessToken = NoTok

\* C9: a failed refresh episode invokes the forced-logout callback once.
C9_TeardownOnce == refreshError # "none" => logoutCalls = 1

\* C10: a call is waiting in the queue exactly while it has one entry there,
\* and when the refresh settles, either way, every entry is consumed
\* (re-issued or rejected) and the queue is empty.
C10_QueueConsumedOnce ==
  /\ [](\A q \in Reqs : /\ st[q] = "queued" <=> q \in InQueue
                        /\ entries(q) <= 1)
  /\ [][\A r \in Reqs :
          RefreshSettles(r)
            => /\ queue' = <<>>
               /\ \A q \in InQueue : st'[q] \in {"sent", "rejected"}]_vars

C10_Witness ==
  \E r, q \in Reqs :
    /\ r # q
    /\ st[r] = "sent" /\ retry[r]
    /\ st[q] = "sent" /\ retry[q]
    /\ queue = <<>> /\ refreshCalls = 1

\* the step in which the refresh awaited by call r resolves with a new token
RefreshSucceeded(r) == RefreshSettles(r) /\ nextTok' # nextTok
\* the step in which a signIn resolves, asked for durability keep
SignedIn(keep) ==
  /\ nextTok' # nextTok
  /\ st' = st
  /\ localStorage'.auth_storage = IF keep THEN "local" ELSE "session"
\* the step in which a signIn rejects with kind
SignInRejected(kind) == signInError' = kind /\ signInError # kind
\* the step in which call r, on the network, is thrown back with a failure
\* that is not a 401
PassedThrough(r) == st[r] = "sent" /\ st'[r] = "rejected" /\ err'[r] = "other"
\* the step in which call r, a POST /logout, settles: signOut completes
SignOutCompletes(r) ==
  /\ url[r] = "logout"
  /\ st[r] \in {"sent", "queued", "trigger"}
  /\ st'[r] \in {"done", "rejected"}

\* C11: when the refresh succeeds with calls waiting in the queue,
\* the replays go out in the order the calls failed: the triggering call
\* first, then the queued calls in their order.
C11_TriggerReplayedFirst ==
  [][\A r \in Reqs : RefreshSucceeded(r) => released' = <<r>> \o queue]_vars

\* C12: a call joins the queue at its end, and when the refresh settles the
\* queued calls are released (re-issued on success, rejected on failure) in
\* the order in which they were enqueued.
C12_FifoRelease ==
  [][\A r \in Reqs :
       /\ (st[r] # "queued" /\ st'[r] = "queued") => queue' = Append(queue, r)
       /\ RefreshSettles(r)
            => /\ Len(released') >= Len(queue)
               /\ SubSeq(released', 1, Len(queue)) = queue]_vars

C12_Witness ==
  /\ Len(released) = 3
  /\ refreshError # "none"
  /\ \A q \in Reqs : st[q] = "rejected" /\ err[q] = "refresh"

\* C13: a 401 on the login or on the refresh exchange starts no refresh and
\* is not enqueued, whether a refresh is in flight or not: the forced-logout
\* callback runs in the same step and the caller is rejected with that error.
C13_AuthUrlNeverRefreshes ==
  [][/\ SignInRejected("401")
          => /\ UNCHANGED <<isRefreshing, queue, refreshCalls, st, retry>>
             /\ accessToken' = NoTok
             /\ sessionStorage' = EmptySS
             /\ localStorage' = EmptyLS
     /\ \A r \in Reqs :
          (RefreshFailed(r) /\ refreshError' = "401")
            => /\ refreshCalls' = refreshCalls
               /\ queue' = <<>>
               /\ \A q \in Reqs : st'[q] \notin {"queued", "trigger"}
               /\ err'[r] = "refresh"
               /\ logoutCalls' >= 1
               /\ accessToken' = NoTok
               /\ sessionStorage' = EmptySS
               /\ localStorage' = EmptyLS]_vars

C13_Witness ==
  /\ signInError = "401"
  /\ isRefreshing /\ RefreshInFlight = 1 /\ Len(queue) >= 1
  /\ accessToken = NoTok /\ user = TheUser
  /\ sessionStorage = EmptySS /\ localStorage = EmptyLS

\* C14: a failure that is not a 401 (no response, another status) is thrown
\* back as it is: the call gets no retry mark and is not re-issued, the
\* coordinator and the queue stay as they were, no refresh starts and the
\* forced-logout callback does not run. (A logout's failure lets signOut go
\* on to clear the store; that is signOut, not the callback.)
C14_OtherFailuresPass ==
  [][/\ \A r \in Reqs :
          PassedThrough(r)
            => /\ retry' = retry
               /\ sends' = sends
               /\ UNCHANGED <<isRefreshing, queue, refreshCalls>>
               /\ UNCHANGED <<refreshError, logoutCalls>>
               /\ \A q \in Reqs \ {r} : st'[q] = st[q]
               /\ url[r] = "api" => UNCHANGED sessVars
     /\ SignInRejected("net")
          => UNCHANGED <<sessVars, coordVars, reqVars, refreshError, logoutCalls>>]_vars

C14_Witness ==
  \E r \in Reqs :
    /\ st[r] = "rejected" /\ err[r] = "other" /\ ~retry[r] /\ sends[r] = 1
    /\ url[r] = "api"
    /\ isRefreshing /\ Len(queue) >= 1
    /\ accessToken # NoTok /\ logoutCalls = 0

\* C15: when an unmarked call is answered 401, the refresh succeeds and the
\* server accepts the new token, the caller gets the replay's answer and sees
\* no error: a replay is answered 401 only if the server refused the newest
\* token, never for a token the refresh has replaced.
C15_RefreshInvisible ==
  [][\A r \in Reqs :
       (MarkedFailsAgain(r) /\ url[r] = "api" /\ sends[r] = 2)
         => hdr[r] = nextTok - 1]_vars

\* C16: after a signIn without remember, whatever the state before,
\* the ephemeral durability holds the token and the user and the persistent
\* durability holds neither.
C16_OnlyEphemeral ==
  [][SignedIn(FALSE)
       => /\ sessionStorage'.access_token = accessToken'
          /\ sessionStorage'.user = JSONstringify(user')
          /\ localStorage'.access_token = NoTok
          /\ localStorage'.user = NoUser]_vars

\* C17: when signOut completes, whether its logout exchange succeeded or
\* failed with any error, the in-memory token and user are null and the token
\* key, the user key and the flag are absent from both storages.
C17_SignOutClearsAll ==
  [][\A r \in Reqs :
       SignOutCompletes(r)
         => /\ accessToken' = NoTok /\ user' = NoUser
            /\ sessionStorage' = EmptySS
            /\ localStorage' = EmptyLS]_vars

C17_Witness ==
  \E r \in Reqs :
    /\ url[r] = "logout" /\ st[r] = "rejected" /\ err[r] = "other"
    /\ nextTok = 2 /\ refreshCalls = 0 /\ signInError = "none"
    /\ accessToken = NoTok /\ user = NoUser /\ hookToken # NoTok
    /\ sessionStorage = EmptySS /\ localStorage = EmptyLS

\* C18: the forced-logout callback leaves the in-memory token, the in-memory
\* user, both storages and the flag as signOut would from the same state.
C18_ForcedLogoutIsSignOut ==
  [][\A r \in Reqs :
       (RefreshFailed(r) /\ \A q \in InQueue \cup {r} : url[q] = "api")
         => /\ accessToken' = signOutClear(Cur).accessToken
            /\ user' = signOutClear(Cur).user
            /\ sessionStorage' = signOutClear(Cur).sessionStorage
            /\ localStorage' = signOutClear(Cur).localStorage]_vars

\* C19: a request issued after the credential changed (signIn, refresh,
\* signOut, forced logout) takes its bearer header from the new in-memory
\* value: a new request that carries a token carries the current one.
C19_NoStaleRead ==
  [][\A r \in Reqs :
       (st[r] = "new" /\ st'[r] = "sent" /\ hdr'[r] # NoTok)
         => hdr'[r] = accessToken']_vars

\* C20: after a signIn, with or without remember, restore() yields the token
\* and the user record that signIn stored.
C20_SignInRestoreRoundTrip ==
  [][\A keep \in BOOLEAN :
       SignedIn(keep)
         => /\ accessToken' = nextTok /\ user' = TheUser
            /\ restore(sessionStorage', localStorage')
                 = [accessToken |-> accessToken', user |-> user']]_vars

C20_Witness ==
  /\ localStorage = [access_token |-> 2, user |-> JSONstringify(TheUser),
                     auth_storage |-> "local"]
  /\ sessionStorage.access_token = 1
  /\ accessToken = 2 /\ user = TheUser
  /\ restore(sessionStorage, localStorage) = [accessToken |-> 2, user |-> TheUser]

\* C21: when the server answers 401 to every protected call, every call
\* that was issued is in the end rejected, no call goes onto the network more
\* than twice, and there are never more refresh exchanges than issued calls.
C21_Terminates ==
  /\ [](\A r \in Reqs : sends[r] <= 2)
  /\ [](refreshCalls <= Cardinality({r \in Reqs : st[r] # "new"}))
  /\ \A r \in Reqs : (st[r] # "new") ~> (st[r] = "rejected")

C21_Witness ==
  /\ \A r \in Reqs : st[r] = "rejected"
  /\ refreshCalls = 2
  /\ \E r \in Reqs : sends[r] = 2 /\ err[r] = "401"

\* C22: the queue is non-empty only while the coordinator is Refreshing: it
\* is empty whenever isRefreshing is false, and a call joins it only while
\* isRefreshing is true.
C22_QueueOnlyWhileRefreshing ==
  /\ [](~isRefreshing => queue = <<>>)
  /\ [][\A r \in Reqs :
          (st[r] # "queued" /\ st'[r] = "queued")
            => isRefreshing /\ isRefreshing']_vars

C22_Witness ==
  /\ isRefreshing /\ Len(queue) = 1
  /\ refreshCalls = 2
  /\ released # <<>>

\* C23: the coordinator is Refreshing exactly while a refresh exchange is in
\* flight, from the 401 that starts it to its settlement, and it is Idle
\* again in the step that settles it, whether with a token, with a failure
\* or without a token; a later 401 starts a new refresh.
C23_RefreshingSpan ==
  /\ [](isRefreshing <=> RefreshInFlight >= 1)
  /\ [][\A r \in Reqs : RefreshSettles(r) => ~isRefreshing']_vars

C23_Witness ==
  /\ refreshError = "notoken"
  /\ refreshCalls = 2
  /\ isRefreshing /\ RefreshInFlight = 1

\* C24 as claimed: on refresh success the coordinator is already Idle at the
\* moment the queued calls and the triggering call are re-issued.
C24_IdleBeforeReplay ==
  [][\A r \in Reqs : RefreshSucceeded(r) => replayedIn' = "Idle"]_vars

\* C24 amended: on refresh success the queued calls and the triggering call
\* are re-issued while the coordinator is still Refreshing, and the
\* coordinator is Idle at the end of that same step, before any answer to a
\* replay is handled.
C24_IdleAfterReplay ==
  [][\A r \in Reqs :
       RefreshSucceeded(r)
         => /\ replayedIn' = "Refreshing"
            /\ ~isRefreshing'
            /\ \A q \in InQueue \cup {r} : st'[q] = "sent"]_vars

C24_Witness ==
  /\ replayedIn = "Refreshing"
  /\ ~isRefreshing
  /\ Len(released) = 2
  /\ \A i \in 1..Len(released) :
       st[released[i]] = "sent" /\ sends[released[i]] = 2

\* C25: a refresh that resolves without an access token is a failed refresh:
\* no token is issued or written, every queued call and the triggering call
\* are rejected, the forced-logout callback runs and the coordinator is Idle.
C25_NoTokenIsFailure ==
  [][\A r \in Reqs :
       (RefreshFailed(r) /\ refreshError' = "notoken")
         => /\ accessToken' = NoTok
            /\ sessionStorage' = EmptySS /\ localStorage' = EmptyLS
            /\ \A q \in InQueue \cup {r} :
                 st'[q] = "rejected" /\ err'[q] = "refresh" /\ sends'[q] = sends[q]
            /\ logoutCalls' = 1
            /\ queue' = <<>> /\ ~isRefreshing']_vars

C25_Witness ==
  /\ refreshError = "notoken" /\ logoutCalls = 1
  /\ Len(released) >= 2
  /\ \A i \in 1..Len(released) : st[released[i]] = "rejected"
  /\ ~isRefreshing /\ queue = <<>>
  /\ accessToken = NoTok /\ user = TheUser /\ nextTok = 2

\* C26: when a signOut has completed while a refresh was in flight and that
\* refresh then succeeds, the in-memory token stays null and no token
\* reappears in either storage.
C26_SignOutNotUndone ==
  [][\A r \in Reqs :
       (RefreshSucceeded(r) /\ outMidRefresh)
         => /\ accessToken' = NoTok
            /\ sessionStorage'.access_token = NoTok
            /\ localStorage'.access_token = NoTok]_vars

\* C27: whenever a token is in memory, after signIn and any number of
\* successful refreshes, restore() yields that token: the durability the flag
\* names holds the most recently issued token.
C27_RestoreYieldsCurrent ==
  accessToken # NoTok
    => restore(sessionStorage, localStorage).accessToken = accessToken

\* C28 as claimed: a signIn that rejects, with a 401 or with any other error,
\* leaves the in-memory credential, both storages and the flag as they were.
C28_FailedSignInChangesNothing ==
  [][\A kind \in {"401", "net"} :
       SignInRejected(kind) => UNCHANGED sessVars]_vars

\* C28 amended: a signIn that rejects with another error than 401 leaves the
\* in-memory credential, both storages and the flag as they were; one that
\* rejects with 401 runs the forced-logout callback: the in-memory token is
\* null and both storages and the flag are cleared, the in-memory user stays.
\* Neither touches the coordinator or any call.
C28_FailedSignInEffects ==
  [][/\ SignInRejected("net") => UNCHANGED sessVars
     /\ SignInRejected("401")
          => /\ accessToken' = NoTok /\ user' = user
             /\ sessionStorage' = EmptySS /\ localStorage' = EmptyLS
     /\ \A kind \in {"401", "net"} :
          SignInRejected(kind) => UNCHANGED <<coordVars, reqVars, nextTok>>]_vars

C28_Witness ==
  /\ signInError = "401"
  /\ ~isRefreshing /\ refreshCalls = 0
  /\ accessToken = NoTok /\ user = TheUser /\ nextTok = 2
  /\ sessionStorage = EmptySS /\ localStorage = EmptyLS

\* C29: the POST /refresh never becomes an entry of the queue, and a refresh
\* in flight can settle whatever the queue holds.
C29_RefreshNeverQueued ==
  /\ \A i \in 1..Len(queue) : queue[i] # RefreshReq
  /\ \A r \in Reqs : st[r] = "trigger" => ENABLED RefreshFail(r, "401")

C29_Witness ==
  /\ refreshError = "401" /\ logoutCalls = 2
  /\ Len(released) = 3
  /\ queue = <<>> /\ ~isRefreshing

\* C30: an unmarked call whose 401 is handled while the coordinator is Idle
\* starts a new refresh, whatever token it was sent with, also one older than
\* the current credential.
C30_RefreshIgnoresToken ==
  [][\A r \in Reqs :
       (/\ st[r] = "sent" /\ ~retry[r] /\ ~isRefreshing
        /\ st'[r] \notin {"sent", "done"} /\ err'[r] # "other")
         => /\ st'[r] = "trigger"
            /\ refreshCalls' = refreshCalls + 1
            /\ isRefreshing']_vars

C30_Witness ==
  /\ retry[2] /\ sends[2] = 2
  /\ st[1] = "trigger" /\ sends[1] = 1
  /\ refreshCalls = 2 /\ accessToken = 2
====
